---- MODULE Spec2Model ----
(***************************************************************************)
(* Model of backend/app/websites.py (ThinNav): the website catalogue's     *)
(* create / read / update / delete handlers and the icon resolution        *)
(* pipeline (get_icon, generate_letter_icon, save_icon_image).             *)
(*                                                                         *)
(* Python strings that the code computes with (URLs, file names) are       *)
(* sequences of one-character strings; Optional values are sets with at    *)
(* most one element ({} is None).                                          *)
(***************************************************************************)
EXTENDS Integers, Sequences, FiniteSets, TLC

\* ------------------------------------------------------------------ strings

StartsWith(s, p) ==
    /\ Len(p) <= Len(s)
    /\ SubSeq(s, 1, Len(p)) = p

EndsWith(s, p) ==
    /\ Len(p) <= Len(s)
    /\ SubSeq(s, Len(s) - Len(p) + 1, Len(s)) = p

\* str.replace(a, b) for one-character a
Replace(s, a, b) ==
    [i \in 1..Len(s) |-> IF s[i] = a THEN b ELSE s[i]]

\* str.replace(a, "") for one-character a
Remove(s, a) ==
    SelectSeq(s, LAMBDA c : c # a)

\* the positions of s that hold one of the characters cs
Positions(s, cs) ==
    {i \in 1..Len(s) : s[i] \in cs}

MinOf(S) ==
    CHOOSE x \in S : \A y \in S : x <= y

MaxOf(S) ==
    CHOOSE x \in S : \A y \in S : y <= x

Digits ==
    {"0", "1", "2", "3", "4", "5", "6", "7", "8", "9"}

Letters ==
    {"a", "b", "c", "f", "h", "i", "o", "p", "s", "t"}

\* str.isdigit(): non-empty and all digits
IsDigit(s) ==
    /\ Len(s) > 0
    /\ \A i \in 1..Len(s) : s[i] \in Digits

\* str.upper() on one character
Upper(c) ==
    CASE c = "a" -> "A"
      [] c = "b" -> "B"
      [] c = "c" -> "C"
      [] OTHER -> c

\* ------------------------------------------------------------ urllib.parse

\* i if the text before position i is a URL scheme, else 0
SchemeEndAt(s, i) ==
    IF /\ i > 1
       /\ s[1] \in Letters
       /\ \A k \in 1..(i - 1) : s[k] \in Letters \cup Digits \cup {"+", "-", "."}
    THEN i ELSE 0

\* the position of the ':' that ends a URL scheme, or 0
SchemeEnd(s) ==
    LET cols == Positions(s, {":"})
    IN  IF cols = {} THEN 0 ELSE SchemeEndAt(s, MinOf(cols))

\* the length of the netloc that starts what follows "//"
NetlocEnd(after) ==
    LET stops == Positions(after, {"/", "?", "#"})
    IN  IF stops = {} THEN Len(after) ELSE MinOf(stops) - 1

SplitNetloc(sch, after, n) ==
    [scheme |-> sch, netloc |-> SubSeq(after, 1, n), path |-> SubSeq(after, n + 1, Len(after))]

\* what follows the scheme: "//" netloc path, or a path alone
SplitRest(sch, rest) ==
    IF StartsWith(rest, <<"/", "/">>)
    THEN SplitNetloc(sch, SubSeq(rest, 3, Len(rest)), NetlocEnd(SubSeq(rest, 3, Len(rest))))
    ELSE [scheme |-> sch, netloc |-> <<>>, path |-> rest]

SplitScheme(s, e) ==
    IF e = 0 THEN SplitRest(<<>>, s)
    ELSE SplitRest(SubSeq(s, 1, e - 1), SubSeq(s, e + 1, Len(s)))

\* urlparse(s): scheme, netloc and path (query and fragment are not used here)
urlparse(s) ==
    SplitScheme(s, SchemeEnd(s))

\* netloc.rpartition("@")[2]
StripUserinfo(nl) ==
    LET ats == Positions(nl, {"@"})
    IN  IF ats = {} THEN nl ELSE SubSeq(nl, MaxOf(ats) + 1, Len(nl))

\* hostinfo.partition(":")[0]
StripPort(hp) ==
    LET cols == Positions(hp, {":"})
    IN  IF cols = {} THEN hp ELSE SubSeq(hp, 1, MinOf(cols) - 1)

NoneIfEmpty(h) ==
    IF h = <<>> THEN {} ELSE {h}

\* ParseResult.hostname: the netloc without userinfo and port; None when empty
hostname(s) ==
    NoneIfEmpty(StripPort(StripUserinfo(urlparse(s).netloc)))

urlunparse(scheme, netloc, path) ==
    scheme \o <<":", "/", "/">> \o netloc \o path

\* the base path up to its last '/'
DirOf(path) ==
    LET sl == Positions(path, {"/"})
    IN  IF sl = {} THEN <<"/">> ELSE SubSeq(path, 1, MaxOf(sl))

JoinParsed(base, ref, b, r) ==
    IF ref = <<>> THEN base
    ELSE IF r.scheme # <<>> /\ r.scheme # b.scheme THEN ref
    ELSE IF r.netloc # <<>> THEN urlunparse(b.scheme, r.netloc, r.path)
    ELSE IF StartsWith(r.path, <<"/">>) THEN urlunparse(b.scheme, b.netloc, r.path)
    ELSE urlunparse(b.scheme, b.netloc, DirOf(b.path) \o r.path)

\* urljoin(base, ref) for an http(s) base
urljoin(base, ref) ==
    JoinParsed(base, ref, urlparse(base), urlparse(ref))

\* str.split(c) for one-character c
RECURSIVE Split(_, _)
Split(s, c) ==
    LET ps == Positions(s, {c})
    IN  IF ps = {} THEN <<s>>
        ELSE <<SubSeq(s, 1, MinOf(ps) - 1)>> \o Split(SubSeq(s, MinOf(ps) + 1, Len(s)), c)

\* str.strip() of blanks
RECURSIVE Strip(_)
Strip(s) ==
    IF s = <<>> THEN s
    ELSE IF Head(s) = " " THEN Strip(Tail(s))
    ELSE IF s[Len(s)] = " " THEN Strip(SubSeq(s, 1, Len(s) - 1))
    ELSE s

\* ------------------------------------------------------------ Python values

\* the value bound to icon_url in create_website: None, a dict {"icon_url": u}
\* (what get_icon returns) or a str (what save_icon_image returns)
PyNone ==
    [kind |-> "none", val |-> <<>>]

PyDict(u) ==
    [kind |-> "dict", val |-> u]

PyStr(s) ==
    [kind |-> "str", val |-> s]

\* Python truthiness of such a value
Truthy(v) ==
    \/ v.kind = "dict"
    \/ v.kind = "str" /\ v.val # <<>>

\* ------------------------------------------------------------------- pages

\* A fetched page: its <link> elements in document order, each with its rel
\* tokens and optional href, and the content of <meta name="description">.
\* A response is {} when client.get or raise_for_status raised, else {page}.

\* BeautifulSoup matching of the multi-valued attribute rel against a query
RelMatches(rel, q) ==
    \/ rel = q
    \/ Len(q) = 1 /\ \E i \in 1..Len(rel) : rel[i] = q[1]

\* soup.find("link", rel=q): the first matching element, or None
Find(page, q) ==
    LET hits == {i \in 1..Len(page.links) : RelMatches(page.links[i].rel, q)}
    IN  IF hits = {} THEN {} ELSE {page.links[MinOf(hits)]}

HttpSchemes ==
    {<<"h", "t", "t", "p">>, <<"h", "t", "t", "p", "s">>}

\* whether the HTTP client can send a request for url at all
Fetchable(url) ==
    /\ urlparse(url).scheme \in HttpSchemes
    /\ hostname(url) # {}

\* client.get(url) with raise_for_status(): what the code after it sees of the
\* server's answer; {} when the call raised
client_get(url, response) ==
    IF Fetchable(url) THEN response ELSE {}

\* lines 77: the first link with rel "icon", else the first with rel "shortcut icon"
IconLink(page) ==
    LET a == Find(page, <<"icon">>)
    IN  IF a # {} THEN a ELSE Find(page, <<"shortcut", "icon">>)

\* lines 82-85: a relative href is joined to url
Absolute(url, href) ==
    IF \/ StartsWith(href, <<"h", "t", "t", "p", ":", "/", "/">>)
       \/ StartsWith(href, <<"h", "t", "t", "p", "s", ":", "/", "/">>)
    THEN href
    ELSE urljoin(url, href)

\* lines 78-89, given link.get("href")
IconOfHref(url, href) ==
    IF href = {} \/ href = {<<>>} THEN PyNone
    ELSE PyDict(Absolute(url, CHOOSE h \in href : TRUE))

\* lines 78-89, given what soup.find returned
IconOfLink(url, link) ==
    IF link = {} THEN PyNone
    ELSE IconOfHref(url, (CHOOSE e \in link : TRUE).href)

\* lines 74-93, given what the fetch returned
IconOfResponse(url, got) ==
    IF got = {} THEN PyNone
    ELSE IconOfLink(url, IconLink(CHOOSE p \in got : TRUE))

\* get_icon(url), given the server's answer to the fetch of url
get_icon(url, response) ==
    IconOfResponse(url, client_get(url, response))

\* lines 34-38: the stripped content of <meta name="description">, or ""
DescriptionOf(page) ==
    IF page.meta = {} THEN <<>>
    ELSE Strip(CHOOSE m \in page.meta : TRUE)

DescriptionOfResponse(got) ==
    IF got = {} THEN <<>>
    ELSE DescriptionOf(CHOOSE p \in got : TRUE)

\* fetch_website_description(url), given the server's answer to the fetch of url
fetch_website_description(url, response) ==
    DescriptionOfResponse(client_get(url, response))

\* ------------------------------------------------------------ letter avatar

IconSize ==
    64

\* the registered domain's label among the labels ls of host h
DomainOfLabels(h, ls) ==
    IF h = <<>> THEN <<>>
    ELSE IF Len(ls) = 4 /\ \A i \in 1..4 : IsDigit(ls[i]) THEN h
    ELSE IF Len(ls) = 1 THEN ls[1]
    ELSE ls[Len(ls) - 1]

\* the host tldextract works on: the hostname, or without one the first path segment
HostOrPath(url, hs) ==
    IF hs = {} THEN Split(urlparse(url).path, "/")[1] ELSE CHOOSE v \in hs : TRUE

DomainOfHost(h) ==
    DomainOfLabels(h, Split(h, "."))

\* tldextract.extract(url).domain: the label before the suffix; an IPv4 address whole
TldDomain(url) ==
    DomainOfHost(HostOrPath(url, hostname(url)))

\* lines 103-108: the first character of an IP address, else of the domain, else 'U'
Letter(h, domain) ==
    IF IsDigit(Remove(h, ".")) THEN Upper(h[1])
    ELSE IF domain # <<>> THEN Upper(domain[1]) ELSE "U"

\* lines 103-145, given parsed_url.hostname and extracted.domain
LetterIcon(hs, domain) ==
    IF hs = {} THEN [exc |-> "AttributeError", image |-> {}]
    ELSE [exc |-> "none",
          image |-> {[letter |-> Letter(CHOOSE v \in hs : TRUE, domain), size |-> IconSize]}]

\* generate_letter_icon(url): the rendered image, or the exception it raises
generate_letter_icon(url) ==
    LetterIcon(hostname(url), TldDomain(url))

\* ------------------------------------------------------------- icon files

IconDir ==
    <<".", "/", "i", "c", "o", "n", "s", "/">>

DefaultSuffix ==
    <<"_", "d", "e", "f", "a", "u", "l", "t", ".", "p", "n", "g">>

PngExt ==
    <<".", "p", "n", "g">>

\* the file name create_website asks for
DefaultFilename(url) ==
    urlparse(url).netloc \o DefaultSuffix

\* the path save_icon_image writes and returns
IconPath(filename) ==
    LET path == IconDir \o Replace(filename, ":", "_")
    IN  IF EndsWith(path, PngExt) THEN path ELSE path \o PngExt

\* ------------------------------------------------------------------- state

VARIABLES
    websites,    \* the Website table: a set of rows
    categories,  \* the Category table (never written by this module)
    icons,       \* the files under ./icons: records [path, data]
    nextId,      \* the next generated Website id
    task,        \* each create_website request in flight: its position and locals
    resp         \* the last request that returned: its response, and for a
                 \* listing the query parameters it answered

vars ==
    <<websites, categories, icons, nextId, task, resp>>

Tasks ==
    {"t1", "t2"}

IdleTask ==
    [pc |-> "idle", url |-> <<>>, name |-> "", order |-> 0, category_id |-> "NULL",
     response |-> {}, icon_url |-> PyNone, default_icon |-> {}, filename |-> <<>>, path |-> <<>>,
     description |-> <<>>, category_name |-> {},
     fetches |-> 0, renders |-> 0, exc |-> "none", id |-> 0]

NoResp ==
    [op |-> "none", status |-> 0, id |-> 0, exc |-> "none",
     skip |-> {}, limit |-> {}, all_data |-> FALSE, total |-> 0, data |-> <<>>]

\* the state the handlers work on, as one value
World ==
    [websites |-> websites, categories |-> categories, icons |-> icons,
     nextId |-> nextId, task |-> task]

Apply(w) ==
    /\ websites' = w.websites
    /\ categories' = w.categories
    /\ icons' = w.icons
    /\ nextId' = w.nextId
    /\ task' = w.task

Ids(ws) ==
    {x.id : x \in ws}

RowOf(ws, id) ==
    CHOOSE x \in ws : x.id = id

\* select(Category.name).where(Category.id == category_id) ... .scalar()
CategoryName(cats, category_id) ==
    LET names == {c.name : c \in {d \in cats : d.id = category_id}}
    IN  IF names = {} THEN {} ELSE {CHOOSE n \in names : TRUE}

\* open(path, "wb") creates or truncates the file
Truncate(files, path) ==
    {f \in files : f.path # path} \cup {[path |-> path, data |-> {}]}

\* a write that leaves a file another request has already filled as it is
FlushIfEmpty(files, path, image, r) ==
    IF \E f \in files : f.path = path /\ f.data # {}
    THEN files
    ELSE {f \in files : f.path # path}
            \cup {[path |-> path, data |-> {[image |-> image, by |-> r]}]}

\* the buffered bytes reach the file when the handle is flushed and closed
Flush(files, path, image, r) ==
    {f \in files : f.path # path}
        \cup {[path |-> path, data |-> {[image |-> image, by |-> r]}]}

\* --------------------------------------------- create_website, step by step

\* the request's locals after line 157
Started(website, response) ==
    [IdleTask EXCEPT !.url = website.url, !.name = website.name,
                     !.order = website.order,
                     !.category_id = website.category_id,
                     !.response = client_get(website.url, response),
                     !.icon_url = get_icon(website.url, response), !.fetches = 1]

\* lines 161-162, given what generate_letter_icon did
Fallback(w, r, t0, g) ==
    IF g.exc # "none"
    THEN [w EXCEPT !.task[r] = [t0 EXCEPT !.pc = "failed", !.exc = g.exc]]
    ELSE [w EXCEPT !.task[r] = [t0 EXCEPT !.pc = "open",
                                          !.default_icon = g.image,
                                          !.renders = 1,
                                          !.filename = DefaultFilename(t0.url)]]

\* the avatar rendered whether or not an icon was found
EagerBranch(w, r, t0, g) ==
    IF Truthy(t0.icon_url) /\ g.exc = "none"
    THEN [w EXCEPT !.task[r] = [t0 EXCEPT !.pc = "describe", !.renders = 1]]
    ELSE Fallback(w, r, t0, g)

\* the avatar rendered before the icon lookup is consulted
create_begin_eager(w, r, website, response) ==
    EagerBranch(w, r, Started(website, response), generate_letter_icon(website.url))

\* line 159: the avatar only when get_icon returned nothing
Branch(w, r, t0) ==
    IF Truthy(t0.icon_url)
    THEN [w EXCEPT !.task[r] = [t0 EXCEPT !.pc = "describe"]]
    ELSE Fallback(w, r, t0, generate_letter_icon(t0.url))

\* lines 154-162: get_icon, and on None the avatar render and the file name
create_begin(w, r, website, response) ==
    Branch(w, r, Started(website, response))

\* save_icon_image up to the open of the file
save_open(w, r, ok) ==
    LET t    == w.task[r]
        path == IconPath(t.filename)
    IN  IF ~ok
        THEN [w EXCEPT !.task[r] = [t EXCEPT !.pc = "failed", !.exc = "OSError",
                                             !.path = path]]
        ELSE [w EXCEPT !.icons = Truncate(w.icons, path),
                       !.task[r] = [t EXCEPT !.pc = "write", !.path = path]]

\* save_icon_image from the write to the return of the path
save_write(w, r, ok) ==
    LET t == w.task[r]
    IN  IF ~ok
        THEN [w EXCEPT !.task[r] = [t EXCEPT !.pc = "failed", !.exc = "OSError"]]
        ELSE [w EXCEPT !.icons = Flush(w.icons, t.path,
                                       CHOOSE i \in t.default_icon : TRUE, r),
                       !.task[r] = [t EXCEPT !.pc = "describe",
                                             !.icon_url = PyStr(t.path)]]

\* lines 166-199: the description fetch, the new row, commit, the category name
create_commit(w, r, response) ==
    LET t   == w.task[r]
        d   == fetch_website_description(t.url, response)
        row == [id |-> w.nextId, name |-> t.name, url |-> t.url,
                icon_url |-> t.icon_url, description |-> d,
                order |-> t.order, category_id |-> t.category_id]
    IN  [w EXCEPT !.websites = w.websites \cup {row},
                  !.nextId = w.nextId + 1,
                  !.task[r] = [t EXCEPT !.pc = "done", !.description = d,
                                        !.fetches = t.fetches + 1,
                                        !.id = row.id,
                                        !.category_name =
                                            CategoryName(w.categories, t.category_id)]]

\* ------------------------------------------------------------- read_websites

\* the columns of schemas.Website, built from a row and its joined category name
Composed(row, category_name) ==
    [id |-> row.id, name |-> row.name, icon_url |-> row.icon_url,
     description |-> row.description, order |-> row.order, url |-> row.url,
     category_id |-> row.category_id, category_name |-> category_name]

\* the join without isouter=True
InnerJoin(ws, cats) ==
    UNION {{Composed(x, {c.name}) : c \in {d \in cats : d.id = x.category_id}} : x \in ws}

\* select(Website, Category.name).join(Category, ..., isouter=True)
LeftJoin(ws, cats) ==
    UNION {
        LET matches == {c \in cats : c.id = x.category_id}
        IN  IF matches = {} THEN {Composed(x, {})}
            ELSE {Composed(x, {c.name}) : c \in matches}
        : x \in ws}

\* every order in which ORDER BY order may return the rows (ties in any order)
RECURSIVE OrderBy(_)
OrderBy(rows) ==
    IF rows = {} THEN {<<>>}
    ELSE UNION {
        {<<x>> \o rest : rest \in OrderBy(rows \ {x})}
        : x \in {y \in rows : \A z \in rows : y.order <= z.order}}

\* `value or default` on an Optional[int]
OrElse(opt, default) ==
    IF opt = {} \/ opt = {0} THEN default ELSE CHOOSE v \in opt : TRUE

DefaultSkip ==
    0

DefaultLimit ==
    10

\* the limit taken as an end position instead of a count
OffsetUpTo(rows, n, m) ==
    SubSeq(rows, n + 1, IF m < Len(rows) THEN m ELSE Len(rows))

\* .offset(n).limit(m) on a result list
OffsetLimit(rows, n, m) ==
    SubSeq(rows, n + 1, IF n + m < Len(rows) THEN n + m ELSE Len(rows))

\* the set of responses read_websites may return from the tables ws, cats
read_result(ws, cats, skip, limit, all_data) ==
    IF all_data
    THEN {[op |-> "read", status |-> 200, id |-> 0, exc |-> "none",
           skip |-> skip, limit |-> limit, all_data |-> TRUE,
           total |-> Len(rows), data |-> rows] : rows \in OrderBy(LeftJoin(ws, cats))}
    ELSE {[op |-> "read", status |-> 200, id |-> 0, exc |-> "none",
           skip |-> skip, limit |-> limit, all_data |-> FALSE,
           total |-> Cardinality(ws),
           data |-> OffsetLimit(rows, OrElse(skip, DefaultSkip), OrElse(limit, DefaultLimit))]
          : rows \in OrderBy(LeftJoin(ws, cats))}

read_websites(skip, limit, all_data) ==
    /\ resp' \in read_result(websites, categories, skip, limit, all_data)
    /\ UNCHANGED <<websites, categories, icons, nextId, task>>

\* ------------------------------------------------------------ update_website

Fields ==
    {"name", "url", "order", "category_id"}

\* setattr for every field of website.model_dump(), unset ones included
SetAllFields(row, body) ==
    [row EXCEPT !.name = body.name, !.url = body.url, !.order = body.order,
                !.category_id = body.category_id]

\* setattr for every field of website.model_dump(exclude_unset=True)
SetFields(row, body) ==
    [row EXCEPT !.name = IF "name" \in body.set THEN body.name ELSE @,
                !.url = IF "url" \in body.set THEN body.url ELSE @,
                !.order = IF "order" \in body.set THEN body.order ELSE @,
                !.category_id = IF "category_id" \in body.set THEN body.category_id ELSE @]

\* an update that inserts the row when the id is unknown
update_website_upsert(website_id, body) ==
    LET old == IF website_id \in Ids(websites) THEN {RowOf(websites, website_id)} ELSE {}
        new == SetAllFields([id |-> website_id, name |-> "", url |-> <<>>,
                             icon_url |-> PyNone, description |-> <<>>, order |-> 0,
                             category_id |-> "NULL"], body)
    IN  /\ websites' = (websites \ old) \cup {new}
        /\ resp' = [NoResp EXCEPT !.op = "update", !.status = 200, !.id = website_id]
        /\ UNCHANGED <<categories, icons, nextId, task>>

update_website(website_id, body) ==
    IF website_id \notin Ids(websites)
    THEN /\ resp' = [NoResp EXCEPT !.op = "update", !.status = 404, !.id = website_id]
         /\ UNCHANGED <<websites, categories, icons, nextId, task>>
    ELSE LET old == RowOf(websites, website_id)
             new == SetFields(old, body)
         IN  /\ websites' = (websites \ {old}) \cup {new}
             /\ resp' = [NoResp EXCEPT !.op = "update", !.status = 200, !.id = website_id,
                                       !.data = <<Composed(new, CategoryName(categories, new.category_id))>>]
             /\ UNCHANGED <<categories, icons, nextId, task>>

\* ------------------------------------------------------------ delete_website

\* a delete that answers 204 whether or not the row exists
delete_website_idempotent(website_id) ==
    /\ websites' = {x \in websites : x.id # website_id}
    /\ resp' = [NoResp EXCEPT !.op = "delete", !.status = 204, !.id = website_id]
    /\ UNCHANGED <<categories, icons, nextId, task>>

delete_website(website_id) ==
    IF website_id \notin Ids(websites)
    THEN /\ resp' = [NoResp EXCEPT !.op = "delete", !.status = 404, !.id = website_id]
         /\ UNCHANGED <<websites, categories, icons, nextId, task>>
    ELSE /\ websites' = websites \ {RowOf(websites, website_id)}
         /\ resp' = [NoResp EXCEPT !.op = "delete", !.status = 204, !.id = website_id]
         /\ UNCHANGED <<categories, icons, nextId, task>>

\* ------------------------------------------------------------ create_website

\* the whole handler run by one request task r with no other request in between
create_run(w, r, website, icon_response, ok_open, ok_write, desc_response) ==
    LET w1 == create_begin(w, r, website, icon_response)
        w2 == IF w1.task[r].pc = "open" THEN save_open(w1, r, ok_open) ELSE w1
        w3 == IF w2.task[r].pc = "write" THEN save_write(w2, r, ok_write) ELSE w2
    IN  IF w3.task[r].pc = "describe" THEN create_commit(w3, r, desc_response) ELSE w3

\* what the client of a finished create_website request receives
create_response(t) ==
    IF t.pc = "done"
    THEN [NoResp EXCEPT !.op = "create", !.status = 200, !.id = t.id,
              !.data = <<[id |-> t.id, name |-> t.name, icon_url |-> t.icon_url,
                          description |-> t.description, order |-> t.order,
                          url |-> t.url, category_id |-> t.category_id,
                          category_name |-> t.category_name]>>]
    ELSE [NoResp EXCEPT !.op = "create", !.status = 500, !.exc = t.exc]

create_website(website, icon_response, ok_open, ok_write, desc_response) ==
    LET w == create_run(World, "t1", website, icon_response, ok_open, ok_write,
                        desc_response)
    IN  /\ Apply([w EXCEPT !.task["t1"] = IdleTask])
        /\ resp' = create_response(w.task["t1"])

\* one request task at a time, each step up to its next await on shared state
create_website_begin(r, website, response) ==
    /\ task[r].pc = "idle"
    /\ Apply(create_begin(World, r, website, response))
    /\ UNCHANGED resp

create_website_open(r, ok) ==
    /\ task[r].pc = "open"
    /\ Apply(save_open(World, r, ok))
    /\ UNCHANGED resp

create_website_write(r, ok) ==
    /\ task[r].pc = "write"
    /\ Apply(save_write(World, r, ok))
    /\ UNCHANGED resp

create_website_commit(r, response) ==
    /\ task[r].pc = "describe"
    /\ Apply(create_commit(World, r, response))
    /\ UNCHANGED resp

\* ------------------------------------------------------------------ inputs

\* "https://a.co/p"
UrlSite ==
    <<"h", "t", "t", "p", "s", ":", "/", "/", "a", ".", "c", "o", "/", "p">>

\* "https://a.co:80/p": the same host on an explicit port
UrlSitePort ==
    <<"h", "t", "t", "p", "s", ":", "/", "/", "a", ".", "c", "o", ":", "8", "0", "/", "p">>

\* "https://a.co/q": another page of the same site
UrlSiteOther ==
    <<"h", "t", "t", "p", "s", ":", "/", "/", "a", ".", "c", "o", "/", "q">>

\* "http://1.2.3.4/": a literal IP address
UrlIp ==
    <<"h", "t", "t", "p", ":", "/", "/", "1", ".", "2", ".", "3", ".", "4", "/">>

\* "a.co/p": no scheme, so urlparse finds no host
UrlNoScheme ==
    <<"a", ".", "c", "o", "/", "p">>

Link(rel, href) ==
    [rel |-> rel, href |-> href]

Stylesheet ==
    Link(<<"stylesheet">>, {<<"s", ".", "c", "s", "s">>})

\* the fetch raised (connection error, timeout, non-2xx status)
NoResponse ==
    {}

\* a page with no icon link and no description
PagePlain ==
    {[links |-> <<Stylesheet>>, meta |-> {}]}

\* <link rel="icon" href="/f.ico"> and a description padded with blanks
PageIconRoot ==
    {[links |-> <<Stylesheet, Link(<<"icon">>, {<<"/", "f", ".", "i", "c", "o">>})>>,
      meta |-> {<<" ", "d", " ">>}]}

\* <link rel="shortcut icon" href="f.ico">
PageShortcutRel ==
    {[links |-> <<Link(<<"shortcut", "icon">>, {<<"f", ".", "i", "c", "o">>})>>, meta |-> {}]}

\* <link rel="icon" href="//c.io/i">
PageIconNetloc ==
    {[links |-> <<Link(<<"icon">>, {<<"/", "/", "c", ".", "i", "o", "/", "i">>})>>, meta |-> {}]}

\* <link rel="icon" href="http://c.io/i">
PageIconAbs ==
    {[links |-> <<Link(<<"icon">>, {<<"h", "t", "t", "p", ":", "/", "/", "c", ".", "i", "o", "/", "i">>})>>,
      meta |-> {}]}

\* <link rel="icon"> without href, then <link rel="shortcut icon" href="/f.ico">
PageIconNoHref ==
    {[links |-> <<Link(<<"icon">>, {}),
                  Link(<<"shortcut", "icon">>, {<<"/", "f", ".", "i", "c", "o">>})>>,
      meta |-> {}]}

\* the bound on the rows ever created in the catalogue specification
MaxRows ==
    2

\* the bound on the rows of the tables the listing specification starts from
MaxBulk ==
    11

InitCategories ==
    {[id |-> "c1", name |-> "News"]}

Init ==
    /\ websites = {}
    /\ categories = InitCategories
    /\ icons = {}
    /\ nextId = 1
    /\ task = [r \in Tasks |-> IdleTask]
    /\ resp = NoResp

\* -------------------------------------------- the catalogue: whole requests

CrudWebsites ==
    [name : {"n1"}, url : {UrlSite}, order : {1, 2}, category_id : {"c1"}]

CrudIconResponses ==
    {NoResponse}

CrudDescResponses ==
    {PageIconRoot}

Bodies ==
    [set : SUBSET Fields, name : {"n2"}, url : {UrlSitePort}, order : {1},
     category_id : {"NULL"}]

OptInts(S) ==
    {{}} \cup {{n} : n \in S}

Create ==
    /\ nextId <= MaxRows
    /\ \E website \in CrudWebsites, ir \in CrudIconResponses, dr \in CrudDescResponses :
            create_website(website, ir, TRUE, TRUE, dr)

Update ==
    \E website_id \in 1..MaxRows, body \in Bodies :
        update_website(website_id, body)

Delete ==
    \E website_id \in 1..MaxRows :
        delete_website(website_id)

Read ==
    read_websites({}, {}, TRUE)

Next ==
    \/ Create
    \/ Update
    \/ Delete
    \/ Read

Spec ==
    Init /\ [][Next]_vars

\* ------------------------------- concurrent creations: one step at a time

TaskWebsites ==
    [name : {"n1"}, url : {UrlSite, UrlSiteOther, UrlSitePort, UrlIp, UrlNoScheme}, order : {1},
     category_id : {"c1"}]

IconResponses ==
    {NoResponse, PagePlain, PageIconRoot, PageShortcutRel, PageIconNetloc, PageIconAbs,
     PageIconNoHref}

DescResponses ==
    {NoResponse, PageIconRoot}

Begin ==
    \E r \in Tasks, website \in TaskWebsites, response \in IconResponses :
        create_website_begin(r, website, response)

Open ==
    \E r \in Tasks, ok \in BOOLEAN :
        create_website_open(r, ok)

Write ==
    \E r \in Tasks, ok \in BOOLEAN :
        create_website_write(r, ok)

Commit ==
    \E r \in Tasks, response \in DescResponses :
        create_website_commit(r, response)

NextTasks ==
    \/ Begin
    \/ Open
    \/ Write
    \/ Commit

SpecTasks ==
    Init /\ [][NextTasks]_vars

\* ------------------------------------------- listing a table of many rows

\* the row that the i-th creation of a bulk load left in the table
BulkRow(i) ==
    [id |-> i, name |-> "n1", url |-> UrlSite,
     icon_url |-> PyStr(IconPath(DefaultFilename(UrlSite))), description |-> <<>>,
     order |-> (i * 4) % 9,
     category_id |-> IF i % 3 = 0 THEN "NULL" ELSE IF i % 3 = 1 THEN "c1" ELSE "c9"]

InitRead ==
    /\ websites \in SUBSET {BulkRow(i) : i \in 1..MaxBulk}
    /\ nextId = MaxBulk + 1
    /\ categories = InitCategories
    /\ icons = {}
    /\ task = [r \in Tasks |-> IdleTask]
    /\ resp = NoResp

ReadPage ==
    \E skip \in OptInts({0, 3, MaxBulk + 1}), limit \in OptInts({1, 4}) :
        read_websites(skip, limit, FALSE)

ReadAll ==
    read_websites({}, {}, TRUE)

NextRead ==
    \/ ReadPage
    \/ ReadAll

SpecRead ==
    InitRead /\ [][NextRead]_vars

\* ------------------------------------------------------------- properties

Min(a, b) ==
    IF a < b THEN a ELSE b

Max(a, b) ==
    IF a < b THEN b ELSE a

\* the element of a one-element set
The(S) ==
    CHOOSE v \in S : TRUE

\* an absolute URL: it has a scheme and a host
IsAbsoluteUrl(u) ==
    /\ urlparse(u).scheme # <<>>
    /\ urlparse(u).netloc # <<>>

\* the composed record the listing owes for row x: the category's name, or null
Listed(x, cats) ==
    [id |-> x.id, name |-> x.name, icon_url |-> x.icon_url,
     description |-> x.description, order |-> x.order, url |-> x.url,
     category_id |-> x.category_id,
     category_name |-> IF \E c \in cats : c.id = x.category_id
                       THEN {(CHOOSE c \in cats : c.id = x.category_id).name}
                       ELSE {}]

\* d lists rows of ws, each at most once and as composed, in non-decreasing order
SortedRowsOf(d, ws, cats) ==
    /\ \A i \in 1..Len(d) : \E x \in ws : d[i] = Listed(x, cats)
    /\ \A i, j \in 1..Len(d) : i < j => d[i].id # d[j].id /\ d[i].order <= d[j].order

\* C4: read_websites with all_data=true returns every Website row exactly once
\* (rows without a category with category_name null), in non-decreasing order of
\* order, and total is the number of rows returned. (Every request that changes
\* the store replaces resp, so a listing in resp is a listing of the store as it
\* is.)
C4_ReadAllData ==
    (resp.op = "read" /\ resp.all_data) =>
        /\ resp.total = Len(resp.data)
        /\ Len(resp.data) = Cardinality(websites)
        /\ {resp.data[i].id : i \in 1..Len(resp.data)} = Ids(websites)
        /\ SortedRowsOf(resp.data, websites, categories)

\* a full listing of two rows that the sort put in the other order than their
\* ids, one of them without a category
C4_Witness ==
    /\ resp.op = "read"
    /\ resp.all_data
    /\ resp.total = 2
    /\ Len(resp.data) = 2
    /\ Ids(websites) = {resp.data[1].id, resp.data[2].id}
    /\ resp.data[1].id > resp.data[2].id
    /\ resp.data[1].order < resp.data[2].order
    /\ \E i \in 1..2 : resp.data[i].category_name = {}
    /\ \E i \in 1..2 : resp.data[i].category_name # {}

\* the page d is rows [sk, sk+lim) of some listing of ws sorted by order
IsPageOf(d, ws, cats, sk, lim) ==
    LET n    == Cardinality(ws)
        rest == {x \in ws : \A i \in 1..Len(d) : d[i].id # x.id}
    IN  /\ SortedRowsOf(d, ws, cats)
        /\ Len(d) = Min(lim, Max(0, n - sk))
        /\ d # <<>> =>
              LET before == {x \in rest : x.order < d[Len(d)].order}
                  upto   == {x \in rest : x.order <= d[1].order}
              IN  /\ before \subseteq upto
                  /\ Cardinality(before) <= sk
                  /\ sk <= Cardinality(upto)

\* C5: read_websites with all_data false returns total = the number of Website
\* rows whatever skip and limit are, and data = rows [skip, skip+limit) of the
\* rows sorted by order (skip 0 and limit 10 when omitted), so that
\* len(data) = min(limit, max(0, total - skip)).
C5_ReadPage ==
    (resp.op = "read" /\ ~resp.all_data) =>
        /\ resp.total = Cardinality(websites)
        /\ IsPageOf(resp.data, websites, categories,
                    IF resp.skip = {} THEN 0 ELSE The(resp.skip),
                    IF resp.limit = {} THEN 10 ELSE The(resp.limit))

\* more rows than the default limit: a page of 10 rows and the full total
C5_Witness ==
    /\ resp.op = "read"
    /\ ~resp.all_data
    /\ Cardinality(websites) > 10
    /\ resp.skip = {}
    /\ resp.limit = {}
    /\ resp.total = Cardinality(websites)
    /\ Len(resp.data) = 10

\* C6: update_website with an id that is not in the store returns 404 and leaves
\* every Website row, every Category row and the icon directory unchanged,
\* whatever the body carries.
C6_UpdateMissing ==
    [][(resp'.op = "update" /\ resp'.id \notin Ids(websites)) =>
          /\ resp'.status = 404
          /\ UNCHANGED <<websites, categories, icons>>]_vars

\* an update of an id that is not in the non-empty store was answered 404
C6_Witness ==
    /\ resp.op = "update"
    /\ resp.status = 404
    /\ resp.id \notin Ids(websites)
    /\ websites # {}

\* C7: of two delete_website calls for an id in the store, one after the other,
\* the first succeeds and removes exactly that row (other rows and categories
\* unchanged), after which the id is in no list result; the second, finding no
\* such row, returns 404 and changes nothing.
C7_DeleteTwice ==
    [][resp'.op = "delete" =>
          IF resp'.id \in Ids(websites)
          THEN /\ resp'.status = 204
               /\ websites' = websites \ {RowOf(websites, resp'.id)}
               /\ Cardinality(websites') = Cardinality(websites) - 1
               /\ UNCHANGED <<categories, icons, nextId>>
               /\ resp'.id < nextId'
               /\ \A r \in read_result(websites', categories', {}, {}, TRUE) :
                     \A i \in 1..Len(r.data) : r.data[i].id # resp'.id
          ELSE /\ resp'.status = 404
               /\ UNCHANGED <<websites, categories, icons, nextId>>]_vars

\* a delete answered 404 for an id that was created and deleted before,
\* while another row is still there
C7_Witness ==
    /\ resp.op = "delete"
    /\ resp.status = 404
    /\ resp.id < nextId
    /\ resp.id \notin Ids(websites)
    /\ websites # {}

\* C8: update_website on an existing id changes only the fields present in the
\* body and leaves the unset fields, the id, icon_url and description of that
\* row unchanged, also when url changes; all other rows are unchanged.
C8_UpdateFrame ==
    [][(resp'.op = "update" /\ resp'.id \in Ids(websites)) =>
          \A body \in Bodies :
              update_website(resp'.id, body) =>
                  /\ resp'.id \in Ids(websites')
                  /\ LET old == RowOf(websites, resp'.id)
                         new == RowOf(websites', resp'.id)
                     IN  /\ new.icon_url = old.icon_url
                         /\ new.description = old.description
                         /\ \A f \in Fields :
                               new[f] = IF f \in body.set THEN body[f] ELSE old[f]
                         /\ websites' \ {new} = websites \ {old}
                  /\ UNCHANGED <<categories, icons, nextId>>]_vars

\* a row whose url was updated still carries the icon of the url it was created
\* with, and its name, set in no update, is the one it was created with
C8_Witness ==
    /\ resp.op = "update"
    /\ resp.status = 200
    /\ \E x \in websites :
          /\ x.id = resp.id
          /\ x.url = UrlSitePort
          /\ x.name = "n1"
          /\ x.icon_url = PyStr(IconPath(DefaultFilename(UrlSite)))

\* C1: every Website row persisted by create_website has an icon_url that is a
\* non-empty string, either an absolute remote URL or the path of the avatar
\* file, whether get_icon found an icon link or not.
C1_IconUrlIsLocation ==
    \A x \in websites :
        /\ x.icon_url.kind = "str"
        /\ x.icon_url.val # <<>>
        /\ IsAbsoluteUrl(x.icon_url.val) \/ StartsWith(x.icon_url.val, IconDir)

\* C2: for every URL, malformed ones included, the icon resolution step of
\* create_website raises nothing unless the file write fails, and yields a
\* non-empty location, so that only a storage fault keeps the row from being
\* persisted.
C2_ResolutionNeverRaises ==
    \A r \in Tasks :
        /\ task[r].exc \in {"none", "OSError"}
        /\ task[r].pc = "failed" => task[r].exc = "OSError"
        /\ task[r].pc \in {"describe", "done"} => Truthy(task[r].icon_url)

\* the page has a <link> with rel "icon" or "shortcut icon" and an href
HasIconLink(page) ==
    \E i \in 1..Len(page.links) :
        /\ page.links[i].rel \in {<<"icon">>, <<"shortcut", "icon">>}
        /\ page.links[i].href \notin {{}, {<<>>}}

\* C3: when the page of url was fetched and has a <link> with rel "icon" or
\* "shortcut icon" and an href, the resolver yields that href as an absolute
\* URL string, renders no avatar and writes no file.
C3_IconLinkResolved ==
    \A r \in Tasks :
        (task[r].response # {} /\ HasIconLink(The(task[r].response))) =>
            /\ task[r].icon_url.kind = "str"
            /\ IsAbsoluteUrl(task[r].icon_url.val)
            /\ task[r].renders = 0
            /\ task[r].path = <<>>
            /\ \A f \in icons : f.data = {} \/ The(f.data).by # r

\* C9 as stated: a create_website request performs one outbound fetch and at
\* most one avatar render.
C9_OneFetch ==
    \A r \in Tasks :
        task[r].pc \in {"done", "failed"} =>
            /\ task[r].fetches = 1
            /\ task[r].renders <= 1

\* C9: a create_website request fetches the url once in get_icon and, when it
\* gets as far as the description, once more in fetch_website_description: two
\* fetches when it completes, one when it fails before; it renders at most one
\* avatar, and only when get_icon found nothing.
C9_TwoFetches ==
    \A r \in Tasks :
        /\ task[r].pc = "idle" => task[r].fetches = 0 /\ task[r].renders = 0
        /\ task[r].pc \in {"open", "write", "describe", "failed"} => task[r].fetches = 1
        /\ task[r].pc = "done" => task[r].fetches = 2
        /\ task[r].renders <= 1
        /\ task[r].renders = 1 => task[r].icon_url.kind # "dict"
        /\ task[r].pc = "done" =>
              (task[r].renders = 1 <=> task[r].icon_url.kind = "str")

\* one request completed with an avatar, the other with the icon link it found
C9_Witness ==
    /\ task["t1"].pc = "done"
    /\ task["t1"].fetches = 2
    /\ task["t1"].renders = 1
    /\ task["t2"].pc = "done"
    /\ task["t2"].fetches = 2
    /\ task["t2"].renders = 0

\* both requests completed on the avatar fallback
BothFellBack ==
    \A r \in Tasks : task[r].pc = "done" /\ task[r].renders = 1

\* the icon file the claim names for url
ExpectedPath(url) ==
    IconDir \o Replace(urlparse(url).netloc, ":", "_") \o DefaultSuffix

\* what two completed fallback requests for one file leave behind
SharedIconOutcome ==
    /\ task["t1"].path = ExpectedPath(task["t1"].url)
    /\ task["t2"].path = task["t1"].path
    /\ Cardinality({f \in icons : f.path = task["t1"].path}) = 1
    /\ \E f \in icons, r \in Tasks :
          /\ f.path = task["t1"].path
          /\ f.data = {[image |-> The(task[r].default_icon), by |-> r]}
    /\ task["t1"].id # task["t2"].id
    /\ \A r \in Tasks : \E x \in websites :
          /\ x.id = task[r].id
          /\ x.url = task[r].url
          /\ x.icon_url = PyStr(task["t1"].path)

NeverWaits(r) ==
    /\ task[r].pc = "open" => save_open(World, r, TRUE).task[r].pc = "write"
    /\ task[r].pc = "write" => save_write(World, r, TRUE).task[r].pc = "describe"
    /\ task[r].pc = "describe" => create_commit(World, r, NoResponse).task[r].pc = "done"

\* the write r is about to complete replaces whatever the file holds by r's image
WriteReplaces(r) ==
    \E f \in save_write(World, r, TRUE).icons :
        /\ f.path = task[r].path
        /\ f.data = {[image |-> The(task[r].default_icon), by |-> r]}

====
